---- MODULE Spec2Model ----
(***************************************************************************)
(* Model of the EntityOwnerPicker data hooks:                              *)
(*   useFacetsEntities  (useFacetsEntities.ts)                             *)
(*   useQueryEntities   (useQueryEntities.ts)                              *)
(*                                                                         *)
(* JavaScript strings are sequences of UTF-16 code units (naturals).       *)
(* A base64 string is a sequence of base64 alphabet indices 0..63, with    *)
(* Pad (64) standing for '='.  An optional value (x?: T) is <<>> when      *)
(* absent and <<v>> when present.                                          *)
(***************************************************************************)
EXTENDS Integers, Sequences, FiniteSets, TLC

(* ------------------------------ bounds --------------------------------- *)
NumRows == 3
MaxLimit == 2
MaxItems == 3

(* ----------------------- string literals ------------------------------- *)
sUser == <<117, 115, 101, 114>>             \* "user"
sUSER == <<85, 83, 69, 82>>                 \* "USER"
sGroup == <<103, 114, 111, 117, 112>>       \* "group"
sApi == <<97, 112, 105>>                    \* "api"
sDefault == <<100, 101, 102, 97, 117, 108, 116>>   \* "default"
sNull == <<110, 117, 108, 108>>             \* "null"
jsonHead == <<123, 34, 116, 101, 120, 116, 34, 58, 34>>       \* {"text":"
jsonMid == <<34, 44, 34, 115, 116, 97, 114, 116, 34, 58>>     \* ","start":
jsonTail == <<125>>                                           \* }
Colon == 58
Slash == 47
Quote == 34
Backslash == 92
Space == 32
Minus == 45
Zero == 48
Pad == 64

Ok(v) == [ok |-> TRUE, val |-> v]
Throw == [ok |-> FALSE, val |-> <<>>]
Tail2(s, n) == SubSeq(s, n, Len(s))
\* LET x == e IN F(x), with e evaluated once
Bind(e, F(_)) == CHOOSE r \in {F(x) : x \in {e}} : TRUE

(* ----------------------- JS string primitives -------------------------- *)
\* a < b on strings: lexicographic by code unit
StrLess(a, b) ==
  \E i \in 1..Len(b) :
    /\ \A j \in 1..(i - 1) : j <= Len(a) /\ a[j] = b[j]
    /\ (i > Len(a) \/ a[i] < b[i])

\* String.prototype.includes
Includes(s, t) ==
  \E i \in 1..(Len(s) - Len(t) + 1) : SubSeq(s, i, i + Len(t) - 1) = t

\* String.prototype.trim
RECURSIVE TrimLeft(_)
TrimLeft(s) == IF Len(s) > 0 /\ s[1] = Space THEN TrimLeft(Tail(s)) ELSE s
RECURSIVE TrimRight(_)
TrimRight(s) ==
  IF Len(s) > 0 /\ s[Len(s)] = Space THEN TrimRight(SubSeq(s, 1, Len(s) - 1)) ELSE s
Trim(s) == TrimRight(TrimLeft(s))

\* String.prototype.toLocaleLowerCase('en-US')
toLocaleLowerCase(s) ==
  [i \in 1..Len(s) |-> IF s[i] >= 65 /\ s[i] <= 90 THEN s[i] + 32 ELSE s[i]]

\* String.prototype.indexOf(ch); 0 stands for -1 (positions are 1-based)
IndexOf(s, ch) ==
  IF \E i \in 1..Len(s) : s[i] = ch
  THEN CHOOSE i \in 1..Len(s) : s[i] = ch /\ \A j \in 1..(i - 1) : s[j] # ch
  ELSE 0
\* slip: the whole list is returned, the window is never cut
SliceWhole(list, end) == list

\* Array.prototype.slice(0, end) for an integer end
Slice(list, end) ==
  LET e == IF end < 0 THEN (IF Len(list) + end < 0 THEN 0 ELSE Len(list) + end)
           ELSE IF end > Len(list) THEN Len(list) ELSE end
  IN SubSeq(list, 1, e)

(* ------------------------------ btoa / atob ---------------------------- *)
\* three bytes give four characters; the last group is padded with '='
B64Enc(s) ==
  LET n == Len(s)
      byte(i) == IF i <= n THEN s[i] ELSE 0
      char(j) ==
        LET g == (j - 1) \div 4
            k == (j - 1) % 4
            b1 == byte(3 * g + 1)
            b2 == byte(3 * g + 2)
            b3 == byte(3 * g + 3)
        IN IF k = 0 THEN b1 \div 4
           ELSE IF k = 1 THEN (b1 % 4) * 16 + b2 \div 16
           ELSE IF k = 2 THEN (IF 3 * g + 2 > n THEN Pad ELSE (b2 % 16) * 4 + b3 \div 64)
           ELSE (IF 3 * g + 3 > n THEN Pad ELSE b3 % 64)
  IN [j \in 1..(4 * ((n + 2) \div 3)) |-> char(j)]

\* btoa throws InvalidCharacterError on a code unit above 0xFF
btoa(s) ==
  Bind(s, LAMBDA v : IF \E i \in 1..Len(v) : v[i] > 255 THEN Throw ELSE Ok(B64Enc(v)))

\* four characters give three bytes; left-over bits are dropped
B64Dec(d) ==
  LET byte(i) ==
        LET g == (i - 1) \div 3
            k == (i - 1) % 3
        IN IF k = 0 THEN d[4 * g + 1] * 4 + d[4 * g + 2] \div 16
           ELSE IF k = 1 THEN (d[4 * g + 2] % 16) * 16 + d[4 * g + 3] \div 4
           ELSE (d[4 * g + 3] % 4) * 64 + d[4 * g + 4]
  IN [i \in 1..((Len(d) * 3) \div 4) |-> byte(i)]

StripPad(c) ==
  IF Len(c) % 4 = 0 /\ Len(c) > 0 /\ c[Len(c)] = Pad
  THEN IF c[Len(c) - 1] = Pad THEN SubSeq(c, 1, Len(c) - 2)
       ELSE SubSeq(c, 1, Len(c) - 1)
  ELSE c

\* atob throws on a malformed base64 string
atob(c) ==
  Bind(StripPad(c), LAMBDA d :
    IF Len(d) % 4 = 1 \/ \E i \in 1..Len(d) : d[i] > 63
    THEN Throw ELSE Ok(B64Dec(d)))

(* ---------------------- JSON.stringify / JSON.parse -------------------- *)
RECURSIVE Digits(_)
Digits(n) == IF n < 10 THEN <<Zero + n>> ELSE Digits(n \div 10) \o <<Zero + (n % 10)>>
NumberToJSON(n) == IF n < 0 THEN <<Minus>> \o Digits(0 - n) ELSE Digits(n)

RECURSIVE EscapeJSON(_)
EscapeJSON(s) ==
  IF Len(s) = 0 THEN <<>>
  ELSE (IF s[1] = Quote \/ s[1] = Backslash THEN <<Backslash, s[1]>> ELSE <<s[1]>>)
       \o EscapeJSON(Tail(s))

\* JSON.stringify({ text, start })
JSONStringify(payload) ==
  jsonHead \o EscapeJSON(payload.text) \o jsonMid \o NumberToJSON(payload.start) \o jsonTail

HasPrefix(s, p) == Len(s) >= Len(p) /\ SubSeq(s, 1, Len(p)) = p

\* reads a JSON string body up to its closing quote: [ok, val, rest]
RECURSIVE ReadString(_, _)
ReadString(s, acc) ==
  IF Len(s) = 0 THEN [ok |-> FALSE, val |-> <<>>, rest |-> <<>>]
  ELSE IF s[1] = Quote THEN [ok |-> TRUE, val |-> acc, rest |-> s]
  ELSE IF s[1] = Backslash
    THEN IF Len(s) >= 2 /\ (s[2] = Quote \/ s[2] = Backslash)
         THEN ReadString(Tail2(s, 3), Append(acc, s[2]))
         ELSE [ok |-> FALSE, val |-> <<>>, rest |-> <<>>]
  ELSE ReadString(Tail(s), Append(acc, s[1]))

IsDigit(c) == c >= Zero /\ c <= Zero + 9
RECURSIVE DigitsValue(_, _)
DigitsValue(s, acc) ==
  IF Len(s) = 0 THEN acc ELSE DigitsValue(Tail(s), acc * 10 + (s[1] - Zero))

\* reads a JSON integer that fills the whole of s
ReadNumber(s) ==
  LET neg == Len(s) > 0 /\ s[1] = Minus
      ds == IF neg THEN Tail(s) ELSE s
  IN IF Len(ds) = 0 \/ (\E i \in 1..Len(ds) : ~IsDigit(ds[i]))
        \/ (Len(ds) > 1 /\ ds[1] = Zero)
     THEN Throw
     ELSE Ok(IF neg THEN 0 - DigitsValue(ds, 0) ELSE DigitsValue(ds, 0))

\* JSON.parse restricted to the documents a cursor can hold:
\*   kind "object": { text, start };  kind "null";  kind "error": SyntaxError
JSONParse(s) ==
  LET bad == [text |-> <<>>, start |-> 0, kind |-> "error"]
      parseStart(text, after) ==
        IF Len(after) = 0 \/ after[Len(after)] # jsonTail[1] THEN bad
        ELSE Bind(ReadNumber(SubSeq(after, 1, Len(after) - 1)), LAMBDA num :
               IF ~num.ok THEN bad
               ELSE [text |-> text, start |-> num.val, kind |-> "object"])
  IN IF s = sNull THEN [text |-> <<>>, start |-> 0, kind |-> "null"]
     ELSE IF ~HasPrefix(s, jsonHead) THEN bad
     ELSE Bind(ReadString(Tail2(s, Len(jsonHead) + 1), <<>>), LAMBDA str :
            IF ~str.ok \/ ~HasPrefix(str.rest, jsonMid) THEN bad
            ELSE parseStart(str.val, Tail2(str.rest, Len(jsonMid) + 1)))

(* ------------------------------ entities ------------------------------- *)
DefaultLimit == 20
apiVersion == "backstage.io/v1beta1"
facet == "relations.ownedBy"

\* metadata.namespace is optional: <<>> stands for an absent namespace
Entity(kind, namespace, name) ==
  [kind |-> kind, apiVersion |-> apiVersion, namespace |-> namespace, name |-> name]

\* parseEntityRef of @backstage/catalog-model: [kind:][namespace/]name, the
\* kind is required, the namespace defaults to "default"
parseEntityRef(ref) ==
  LET colon0 == IndexOf(ref, Colon)
      slashI == IndexOf(ref, Slash)
      colonI == IF slashI # 0 /\ slashI < colon0 THEN 0 ELSE colon0
      kind == IF colonI = 0 THEN <<>> ELSE SubSeq(ref, 1, colonI - 1)
      namespace == IF slashI = 0 THEN <<>> ELSE SubSeq(ref, colonI + 1, slashI - 1)
      name == Tail2(ref, (IF colonI > slashI THEN colonI ELSE slashI) + 1)
  IN IF kind = <<>> \/ (slashI # 0 /\ namespace = <<>>) \/ name = <<>>
        \/ Includes(name, <<Colon>>) \/ Includes(name, <<Slash>>)
     THEN Throw
     ELSE Ok([kind |-> kind,
              namespace |-> IF slashI = 0 THEN sDefault ELSE namespace,
              name |-> name])

(* --------------------------- catalog backend --------------------------- *)
\* the owned entities the backend may hold: entity kind and its ownedBy target
RowPool ==
  << [owner |-> sGroup \o <<Colon>> \o sDefault \o <<Slash, 98>>, kind |-> sUser],  \* group:default/b
     [owner |-> sGroup \o <<Colon, 97, Slash, 955>>, kind |-> sGroup],               \* group:a/<lambda>
     [owner |-> <<98>>, kind |-> sUser],                                            \* b (no kind)
     [owner |-> sUser \o <<Colon>> \o sDefault \o <<Slash, 97>>, kind |-> sUser],   \* user:default/a
     [owner |-> sUser \o <<Colon, 97>>, kind |-> sGroup],                            \* user:a
     [owner |-> sGroup \o <<Colon>> \o sDefault \o <<Slash, 97>>, kind |-> sApi] >> \* group:default/a
Row(i) == RowPool[((i - 1) % Len(RowPool)) + 1]
Rows == 1..NumRows

\* the catalog compares filter values case-insensitively
MatchesFilter(row, filterObj) ==
  filterObj = <<>> \/
  \E j \in 1..Len(filterObj[1].values) :
    toLocaleLowerCase(filterObj[1].values[j]) = toLocaleLowerCase(row.kind)

RECURSIVE FacetValues(_, _, _)
FacetValues(cat, filterObj, i) ==
  IF i > NumRows THEN <<>>
  ELSE Bind(FacetValues(cat, filterObj, i + 1), LAMBDA rest :
         IF i \in cat /\ MatchesFilter(Row(i), filterObj)
            /\ ~(\E j \in 1..Len(rest) : rest[j] = Row(i).owner)
         THEN <<Row(i).owner>> \o rest ELSE rest)

\* catalogApi.getEntityFacets({ facets: [facet], filter }): the distinct
\* facet values, or a rejection when the call fails
getEntityFacets(cat, filterObj, fail) ==
  IF fail THEN Throw ELSE Ok(FacetValues(cat, filterObj, 1))

(* --------------------------- useFacetsEntities ------------------------- *)
TextRequest(text) == [text |-> text, cursor |-> <<>>, items |-> <<>>]
CursorRequest(cursor, items) == [text |-> <<>>, cursor |-> <<cursor>>, items |-> items]
\* slip: a continuation restarts at offset 0 instead of the decoded start
decodeCursorRestart(request) ==
  IF request.cursor # <<>>
  THEN Bind(atob(request.cursor[1]), LAMBDA bin :
         IF ~bin.ok THEN Throw
         ELSE Bind(JSONParse(bin.val), LAMBDA doc :
                IF doc.kind = "error" THEN Throw ELSE Ok([doc EXCEPT !.start = 0])))
  ELSE Ok([text |-> request.text, start |-> 0, kind |-> "object"])

decodeCursor(request) ==
  IF request.cursor # <<>>
  THEN Bind(atob(request.cursor[1]), LAMBDA bin :
         IF ~bin.ok THEN Throw
         ELSE Bind(JSONParse(bin.val), LAMBDA doc :
                IF doc.kind = "error" THEN Throw ELSE Ok(doc)))
  ELSE Ok([text |-> request.text, start |-> 0, kind |-> "object"])

\* slip: >= instead of >, a cursor is emitted when the list ends at limit
encodeCursorOffByOne(entities, limit, payload) ==
  IF Len(entities) >= limit
  THEN Bind(btoa(JSONStringify(payload)), LAMBDA enc :
         IF enc.ok THEN Ok(<<enc.val>>) ELSE Throw)
  ELSE Ok(<<>>)

encodeCursor(entities, limit, payload) ==
  IF Len(entities) > limit
  THEN Bind(btoa(JSONStringify(payload)), LAMBDA enc :
         IF enc.ok THEN Ok(<<enc.val>>) ELSE Throw)
  ELSE Ok(<<>>)

filterEntity(text, entity) ==
  Bind(Trim(text), LAMBDA normalizedText :
    Includes(entity.kind, normalizedText)
    \/ (entity.namespace # <<>> /\ Includes(entity.namespace, normalizedText))
    \/ Includes(entity.name, normalizedText))

\* the comparator handed to Array.prototype.sort
compareEntities(a, b) ==
  IF StrLess(a.kind, b.kind) THEN -1
  ELSE IF StrLess(b.kind, a.kind) THEN 1
  ELSE IF a.namespace # <<>> /\ b.namespace # <<>> /\ StrLess(a.namespace, b.namespace) THEN -1
  ELSE IF a.namespace # <<>> /\ b.namespace # <<>> /\ StrLess(b.namespace, a.namespace) THEN 1
  ELSE IF StrLess(a.name, b.name) THEN -1
  ELSE IF StrLess(b.name, a.name) THEN 1
  ELSE 0

\* Array.prototype.sort is stable: x goes before the first element it precedes
InsertSorted(x, sorted) ==
  LET before == {i \in 1..Len(sorted) : compareEntities(x, sorted[i]) < 0}
      p == IF before = {} THEN Len(sorted) + 1
           ELSE CHOOSE i \in before : \A j \in before : i <= j
  IN SubSeq(sorted, 1, p - 1) \o <<x>> \o SubSeq(sorted, p, Len(sorted))
\* the first n elements of list, sorted
RECURSIVE SortPrefix(_, _)
SortPrefix(list, n) ==
  IF n = 0 THEN <<>>
  ELSE Bind(SortPrefix(list, n - 1), LAMBDA sorted : InsertSorted(list[n], sorted))
SortEntities(list) == SortPrefix(list, Len(list))

KindFilter(kind) ==
  LET lower == toLocaleLowerCase(kind)
  IN IF lower = sGroup \/ lower = sUser
     THEN <<[values |-> <<kind>>, key |-> "kind"]>>
     ELSE <<>>

Response(items, cursor) == [cursor |-> cursor, items |-> items]
EmptyResponse == Response(<<>>, <<>>)
NoTrace ==
  [text |-> <<>>, list |-> <<>>, end |-> 0, kind |-> <<>>, fail |-> FALSE,
   outcome |-> "none", calls |-> 0, sent |-> <<>>, enabled |-> FALSE]

\* the body of the try block: [ok, val: [items, cursor, list, end, text]]
TryBody(request, options, raw) ==
  LET limit == IF options = <<>> THEN DefaultLimit ELSE options[1]
      page(text, start, sortedItems) ==
        Bind(encodeCursor(sortedItems, start + limit, [text |-> text, start |-> start + limit]),
             LAMBDA enc :
               IF ~enc.ok THEN Throw
               ELSE Ok([text |-> text, list |-> sortedItems, end |-> start + limit,
                        cursor |-> enc.val, items |-> Slice(sortedItems, start + limit)]))
      select(facets) ==
        Bind(decodeCursor(request), LAMBDA dec :
          IF ~dec.ok \/ dec.val.kind = "null" THEN Throw
          ELSE Bind(SortEntities(SelectSeq(facets, LAMBDA e : filterEntity(dec.val.text, e))),
                    LAMBDA sortedItems : page(dec.val.text, dec.val.start, sortedItems)))
      parsed == [i \in 1..Len(raw) |-> parseEntityRef(raw[i])]
  IN IF \E i \in 1..Len(raw) : ~parsed[i].ok THEN Throw
     ELSE select([i \in 1..Len(raw) |->
                    Entity(parsed[i].val.kind, parsed[i].val.namespace, parsed[i].val.name)])

\* slip: the catch clause rethrows
OnCatchRethrow(status) == [status |-> status, value |-> EmptyResponse]

\* the catch clause: resolve to an empty response
OnCatch(status) == [status |-> "resolved", value |-> EmptyResponse]
\* slip: only enabled is tested
GatedEnabledOnly(en, kind) == ~en

\* !enabled || !selectedKind
Gated(en, kind) == ~en \/ kind = <<>>

\* the async function given to useAsyncFn: the settled promise and what the
\* call did on the way (trace)
FetchFacets(en, kind, request, options, cat, fail) ==
  IF Gated(en, kind)
  THEN [status |-> "resolved", value |-> EmptyResponse,
        trace |-> [NoTrace EXCEPT !.outcome = "gated", !.enabled = en, !.kind = kind]]
  ELSE
    LET filterObj == KindFilter(kind)
        call == [NoTrace EXCEPT !.calls = 1, !.sent = <<filterObj>>, !.fail = fail,
                                !.enabled = en, !.kind = kind]
        settle(body) ==
          IF body.ok
          THEN [status |-> "resolved",
                value |-> Response(body.val.items, body.val.cursor),
                trace |-> [call EXCEPT !.outcome = "ok", !.list = body.val.list,
                                       !.end = body.val.end, !.text = body.val.text]]
          ELSE [status |-> OnCatch("rejected").status, value |-> OnCatch("rejected").value,
                trace |-> [call EXCEPT !.outcome = "caught"]]
    IN Bind(getEntityFacets(cat, filterObj, fail), LAMBDA response :
         IF response.ok
         THEN Bind(TryBody(request, options, response.val), settle)
         ELSE settle(Throw))

\* slip: a continuation returns the new page without the prior items
FetchQueryPageOnly(request, options, page, next, fail) ==
  IF fail THEN [status |-> "rejected", value |-> EmptyResponse]
  ELSE [status |-> "resolved", value |-> Response(page, next)]

\* the async function of useQueryEntities; page and next are the items and
\* pageInfo.nextCursor of the catalog's answer, fail its rejection
FetchQuery(request, options, page, next, fail) ==
  IF fail THEN [status |-> "rejected", value |-> EmptyResponse]
  ELSE IF request.cursor # <<>>
    THEN [status |-> "resolved", value |-> Response(request.items \o page, next)]
    ELSE [status |-> "resolved", value |-> Response(page, next)]

\* what the hook sends to catalogApi.queryEntities
QuerySent(request, options) ==
  LET limit == IF options = <<>> THEN DefaultLimit ELSE options[1]
  IN IF request.cursor # <<>>
     THEN [cursor |-> request.cursor, limit |-> limit, term |-> <<>>]
     ELSE [cursor |-> <<>>, limit |-> limit, term |-> <<request.text>>]

(* ------------------------------- inputs -------------------------------- *)
KindChoices == {<<>>, sUser, sUSER, sApi}
Texts == {<<>>, <<98>>, <<Space, 98>>, <<955>>}      \* "", "b", " b", "<lambda>"
LimitOptions == {<<>>} \cup {<<n>> : n \in 0..MaxLimit}
ForgedCursors ==
  { <<>>,                                            \* ''
    <<1>>,                                           \* not base64
    B64Enc(sNull),                                   \* btoa('null')
    B64Enc(JSONStringify([text |-> <<>>, start |-> 5])) }
QEntities == { Entity(sUser, sDefault, <<97>>), Entity(sGroup, sDefault, <<98>>) }
QPages == {<<>>} \cup {<<e>> : e \in QEntities} \cup {<<e, f>> : e \in QEntities, f \in QEntities}
QCursors == {<<>>, <<<<1>>>>, <<<<2>>>>}
ProbeEntities ==
  { Entity(k, ns, n) : k \in {sGroup, sUser}, ns \in {<<>>, <<97>>, <<98>>}, n \in {<<97>>, <<98>>} }

(* -------------------------------- state -------------------------------- *)
VARIABLES
  enabled,        \* prop enabled
  selectedKind,   \* prop selectedKind (<<>>: undefined or '')
  catalog,        \* rows the catalog backend holds
  request,        \* the request of the last doFetch of useFacetsEntities
  options,        \* its options.limit
  state,          \* the useAsyncFn state of useFacetsEntities: status, value
  prev,           \* the response the last request continued, if chained
  chained,        \* the last request carried the cursor and items of prev
  trace,          \* what the last fetch of useFacetsEntities did
  qRequest,       \* the request of the last fetch of useQueryEntities
  qState,         \* the useAsyncFn state of useQueryEntities
  qTrace,         \* what its last fetch sent and received
  probe,          \* three entities handed to the sort comparator
  verdict         \* the comparator's answers on them

fvars == <<enabled, selectedKind, catalog, request, options, state, prev, chained, trace>>
qvars == <<qRequest, qState, qTrace>>
pvars == <<probe, verdict>>
vars == <<enabled, selectedKind, catalog, request, options, state, prev, chained, trace,
          qRequest, qState, qTrace, probe, verdict>>

LoadingState == [status |-> "loading", value |-> EmptyResponse]
NoQTrace == [kind |-> "none", sent |-> QuerySent(TextRequest(<<>>), <<>>),
             page |-> <<>>, next |-> <<>>]

FacetsIdle ==
  /\ request = TextRequest(<<>>) /\ options = <<>>
  /\ state = LoadingState /\ prev = EmptyResponse /\ chained = FALSE /\ trace = NoTrace
FacetsInit ==
  /\ enabled \in BOOLEAN /\ selectedKind \in KindChoices /\ catalog \in SUBSET Rows
  /\ FacetsIdle
QueryInit == qRequest = TextRequest(<<>>) /\ qState = LoadingState /\ qTrace = NoQTrace
NoVerdict == [done |-> FALSE, ab |-> 0, ba |-> 0, bc |-> 0, cb |-> 0, ac |-> 0, ca |-> 0]
ProbeIdle == probe = <<>> /\ verdict = NoVerdict

Init == FacetsInit /\ QueryInit /\ ProbeIdle

(* ----------------------- useFacetsEntities actions --------------------- *)
\* doFetch(req, { limit }) run to its settlement
DoFetch(req, opt, fail, isChained) ==
  \E r \in {FetchFacets(enabled, selectedKind, req, opt, catalog, fail)} :
     /\ request' = req
     /\ options' = opt
     /\ state' = [status |-> r.status, value |-> r.value]
     /\ trace' = r.trace
     /\ chained' = isChained
     /\ prev' = IF isChained THEN state.value ELSE EmptyResponse
     /\ UNCHANGED <<enabled, selectedKind, catalog>>

\* the caller starts a search
FetchText ==
  \E text \in Texts, opt \in LimitOptions, fail \in BOOLEAN :
    DoFetch(TextRequest(text), opt, fail, FALSE) /\ UNCHANGED <<qvars, pvars>>

\* the caller asks for more with the cursor and items of the last response
FetchMore ==
  /\ state.status = "resolved" /\ state.value.cursor # <<>>
  /\ \E opt \in LimitOptions, fail \in BOOLEAN :
       DoFetch(CursorRequest(state.value.cursor[1], state.value.items), opt, fail, TRUE)
  /\ UNCHANGED <<qvars, pvars>>

\* a continuation whose cursor this hook did not issue
FetchForged ==
  \E c \in ForgedCursors, opt \in LimitOptions, fail \in BOOLEAN :
    DoFetch(CursorRequest(c, <<>>), opt, fail, FALSE) /\ UNCHANGED <<qvars, pvars>>

\* a render with new props, followed by the effect on [enabled, selectedKind]
Render ==
  \E en \in BOOLEAN, kind \in KindChoices, fail \in BOOLEAN :
    /\ enabled' = en /\ selectedKind' = kind
    /\ IF en /\ kind # <<>>
       THEN \E r \in {FetchFacets(en, kind, TextRequest(<<>>), <<>>, catalog, fail)} :
               /\ request' = TextRequest(<<>>) /\ options' = <<>>
               /\ state' = [status |-> r.status, value |-> r.value]
               /\ trace' = r.trace /\ chained' = FALSE /\ prev' = EmptyResponse
       ELSE UNCHANGED <<request, options, state, trace, chained, prev>>
    /\ UNCHANGED <<catalog, qvars, pvars>>

\* the catalog gains or loses an owned entity between two calls
CatalogChange ==
  \E i \in Rows :
    /\ catalog' = IF i \in catalog THEN catalog \ {i} ELSE catalog \cup {i}
    /\ UNCHANGED <<enabled, selectedKind, request, options, state, prev, chained, trace,
                   qvars, pvars>>

Next == FetchText \/ FetchMore \/ FetchForged \/ Render \/ CatalogChange
Spec == Init /\ [][Next]_vars

(* ------------------------ useQueryEntities actions --------------------- *)
DoQuery(req, opt, page, next, fail, kind) ==
  LET r == FetchQuery(req, opt, page, next, fail)
  IN /\ qRequest' = req
     /\ qState' = r
     /\ qTrace' = [kind |-> kind, sent |-> QuerySent(req, opt), page |-> page, next |-> next]
     /\ UNCHANGED <<fvars, pvars>>

QueryText ==
  \E text \in Texts, opt \in LimitOptions, page \in QPages, next \in QCursors, fail \in BOOLEAN :
    DoQuery(TextRequest(text), opt, page, next, fail, "initial")

QueryMore ==
  /\ qState.status = "resolved" /\ qState.value.cursor # <<>>
  /\ \E opt \in LimitOptions, page \in QPages, next \in QCursors, fail \in BOOLEAN :
       /\ Len(qState.value.items) + Len(page) <= MaxItems
       /\ DoQuery(CursorRequest(qState.value.cursor[1], qState.value.items),
                  opt, page, next, fail, "continuation")

QInit ==
  /\ enabled = FALSE /\ selectedKind = <<>> /\ catalog = {}
  /\ FacetsIdle /\ QueryInit /\ ProbeIdle
QNext == QueryText \/ QueryMore
QSpec == QInit /\ [][QNext]_vars

(* --------------------------- comparator probe -------------------------- *)
Compare ==
  /\ ~verdict.done
  /\ verdict' = [done |-> TRUE,
                 ab |-> compareEntities(probe[1], probe[2]),
                 ba |-> compareEntities(probe[2], probe[1]),
                 bc |-> compareEntities(probe[2], probe[3]),
                 cb |-> compareEntities(probe[3], probe[2]),
                 ac |-> compareEntities(probe[1], probe[3]),
                 ca |-> compareEntities(probe[3], probe[1])]
  /\ UNCHANGED <<probe, fvars, qvars>>

CmpInit ==
  /\ enabled = FALSE /\ selectedKind = <<>> /\ catalog = {}
  /\ FacetsIdle /\ QueryInit
  /\ probe \in {<<a, b, c>> : a \in ProbeEntities, b \in ProbeEntities, c \in ProbeEntities}
  /\ verdict = NoVerdict
CmpNext == Compare
CmpSpec == CmpInit /\ [][CmpNext]_vars

(* ------------------- one pagination sequence, stable catalog ----------- *)
EffectiveLimit(opt) == IF opt = <<>> THEN DefaultLimit ELSE opt[1]

PagStart ==
  /\ state.status = "loading"
  /\ \E text \in Texts, opt \in LimitOptions :
       DoFetch(TextRequest(text), opt, FALSE, FALSE)
  /\ UNCHANGED <<qvars, pvars>>

PagMore ==
  /\ state.status = "resolved" /\ state.value.cursor # <<>>
  /\ DoFetch(CursorRequest(state.value.cursor[1], state.value.items), options, FALSE, TRUE)
  /\ UNCHANGED <<qvars, pvars>>

PagInit ==
  /\ enabled = TRUE /\ selectedKind \in KindChoices \ {<<>>} /\ catalog \in SUBSET Rows
  /\ FacetsIdle /\ QueryInit /\ ProbeIdle
PagNext == PagStart \/ PagMore
PagSpec == PagInit /\ [][PagNext]_vars

(* ------------------------------- claims -------------------------------- *)
IsPrefix(p, s) == Len(p) <= Len(s) /\ SubSeq(s, 1, Len(p)) = p
Min(a, b) == IF a < b THEN a ELSE b
Settled == trace.outcome \in {"ok", "caught"}

\* C1: a continuation of useQueryEntities whose query succeeds returns the
\* request's prior items followed by the new page, both in order, and the
\* server's next cursor unchanged.
C1_ContinuationAppends ==
  (qTrace.kind = "continuation" /\ qState.status = "resolved") =>
    /\ qState.value.items = qRequest.items \o qTrace.page
    /\ qState.value.cursor = qTrace.next
    /\ qTrace.sent.cursor = qRequest.cursor
C1_Witness ==
  /\ qTrace.kind = "continuation" /\ qState.status = "resolved"
  /\ Len(qRequest.items) = 2 /\ qRequest.items[1] # qRequest.items[2]
  /\ Len(qTrace.page) = 1 /\ qTrace.page[1] = qRequest.items[1]

\* C2: a fetch of useFacetsEntities never rejects; whenever anything throws
\* inside it (facet call, reference parsing, cursor decoding or encoding) the
\* call resolves to an empty items list and no cursor.
C2_NeverRejects ==
  /\ state.status # "rejected"
  /\ trace.outcome = "caught" => (state.status = "resolved" /\ state.value = EmptyResponse)
C2_Witness ==
  /\ trace.outcome = "caught" /\ ~trace.fail
  /\ request.cursor # <<>> /\ ~decodeCursor(request).ok
  /\ state.status = "resolved"

\* C3: in a successful facet response the cursor is absent exactly when
\* end >= list.length, and a present cursor decodes to the same text and to
\* start = end.
C3_CursorIffMore ==
  trace.outcome = "ok" =>
    /\ (state.value.cursor = <<>>) <=> (trace.end >= Len(trace.list))
    /\ state.value.cursor # <<>> =>
         LET dec == decodeCursor(CursorRequest(state.value.cursor[1], <<>>))
         IN dec.ok /\ dec.val.kind = "object"
            /\ dec.val.text = trace.text /\ dec.val.start = trace.end
C3_Witness ==
  /\ trace.outcome = "ok" /\ state.value.cursor # <<>>
  /\ trace.text = <<Space, 98>> /\ trace.end = 0 /\ request.cursor # <<>>

\* C4 (as claimed): the end offset start + limit never exceeds the length of
\* the filtered, sorted list.
C4_EndWithinList == trace.outcome = "ok" => trace.end <= Len(trace.list)
\* C4 (amended): the returned items are the first min(end, length) items of
\* the list, so never more than the list; end itself may exceed the length,
\* and then the response has no cursor.
C4_ItemsWithinList ==
  trace.outcome = "ok" =>
    /\ Len(state.value.items) <= Len(trace.list)
    /\ state.value.items = SubSeq(trace.list, 1, Min(trace.end, Len(trace.list)))
    /\ trace.end > Len(trace.list) => state.value.cursor = <<>>
C4_Witness ==
  /\ trace.outcome = "ok" /\ trace.end > Len(trace.list) /\ Len(trace.list) = 2
  /\ state.value.items = trace.list

C6_KindCaseInsensitive ==
  (Settled /\ toLocaleLowerCase(trace.kind) \in {sUser, sGroup}) =>
    LET asGiven == FetchFacets(TRUE, trace.kind, request, options, catalog, trace.fail)
        asLower == FetchFacets(TRUE, toLocaleLowerCase(trace.kind), request, options,
                               catalog, trace.fail)
    IN /\ trace.sent = asLower.trace.sent
       /\ asGiven.value = asLower.value

\* C7: a continuation request (one carrying the cursor of the previous
\* response) performs no facet query against the server.
C7_NoFacetQueryOnContinuation == chained => trace.calls = 0

\* C8: in a pagination sequence the previous response's items are a prefix of
\* the next response's items, also when the catalog changes in between.
C8_ItemsOnlyGrow ==
  /\ (chained /\ trace.outcome = "ok") => IsPrefix(prev.items, state.value.items)
  /\ (qTrace.kind = "continuation" /\ qState.status = "resolved") =>
       IsPrefix(qRequest.items, qState.value.items)

\* C9: with enabled false or selectedKind absent or empty, every fetch returns
\* empty items and no cursor and makes no call to the facet endpoint.
C9_GatedFetchIsEmpty ==
  (trace.outcome # "none" /\ (~trace.enabled \/ trace.kind = <<>>)) =>
    /\ state.status = "resolved" /\ state.value = EmptyResponse
    /\ trace.calls = 0 /\ trace.sent = <<>>
C9_Witness ==
  /\ trace.outcome = "gated" /\ trace.enabled /\ trace.kind = <<>>
  /\ request.cursor # <<>> /\ decodeCursor(request).ok /\ catalog = Rows

\* C10 (as claimed): with a stable catalog, a caller that keeps passing the
\* last cursor eventually gets a response without a cursor, for every limit
\* (0 included), and that response holds the whole filtered, sorted list.
\* The fetch is a function of the request, so the sequence ends only if every
\* continuation that still returns a cursor has returned more items than the
\* response it continued; a continuation that does not repeats forever.
PagDone == state.status = "resolved" /\ state.value.cursor = <<>>
====
